---------------------------- MODULE Spec2Model ----------------------------
(***************************************************************************)
(* A model of eccgen's matrix pipeline:                                    *)
(*   - matrix_parser.py : _parse_matrix_file, parse_g_and_h_files          *)
(*   - dslx_codegen.py  : G_to_x, syndrome_to_x, H_to_x, the two render    *)
(*                        functions and main                               *)
(*   - eccgen.py        : main (the writer of the G and H text files)      *)
(*                                                                         *)
(* Matrices are sequences of rows, rows are sequences of integers.  TLA+   *)
(* sequences are 1-based; every index that appears in generated text       *)
(* (m[3+:u1], parity_2, ...) is kept 0-based, as the program prints it.    *)
(* Generated text is modelled by its tokens: a binding is a record of its  *)
(* name, its index and its operands, a literal is its sequence of digit    *)
(* characters.                                                             *)
(*                                                                         *)
(* There are four specifications:                                          *)
(*   SpecCompile : the three expression compilers applied to every binary  *)
(*                 matrix within the bounds                                *)
(*   SpecParse   : _parse_matrix_file applied to every file within bounds  *)
(*   Spec        : a whole run of dslx_codegen's main                      *)
(*   SpecWriter  : a whole run of eccgen's main                            *)
(***************************************************************************)
EXTENDS Integers, Sequences, FiniteSets, TLC

VARIABLES
    pc,         \* position of the running program
    numpy,      \* how the installed numpy converts an out-of-range integer
    cin,        \* SpecCompile: the matrix handed to a compiler
    cout,       \* SpecCompile: what the compiler returned
    pin,        \* SpecParse: [path, symbol, file]
    pout,       \* SpecParse: result of _parse_matrix_file
    k_list,     \* Spec: the requested widths
    idx,        \* Spec: 1-based position of the loop in k_list
    loc,        \* Spec: the loop's locals (what parse_g_file returned)
    codes,      \* Spec: the dict built by parse_g_and_h_files
    reads,      \* Spec: the paths opened so far, in order
    compiled,   \* Spec: the compiler calls made so far, in order
    err,        \* Spec, SpecWriter: the exception that ended the run
    enc_out,    \* Spec: chunks written to --encoder-output
    dec_out,    \* Spec: chunks written to --decoder-output
    wargs,      \* SpecWriter: the parsed command line
    wcode,      \* SpecWriter: what hsiao_secded_code returned
    g_out,      \* SpecWriter: chunks written to --generator-matrix-output
    h_out       \* SpecWriter: chunks written to --parity-check-matrix-output

vars == <<pc, numpy, cin, cout, pin, pout, k_list, idx, loc, codes, reads,
          compiled, err, enc_out, dec_out, wargs, wcode, g_out, h_out>>

-----------------------------------------------------------------------------
(* Bounds *)

\* Matrices handed to the compilers have at most MaxRows rows, MaxCols
\* columns and MaxCells entries.
MaxRows == 3
MaxCols == 5
MaxCells == 12

\* SpecWriter: k and r are 1..MaxWriterK, and neither G nor H has more than
\* MaxWriterCells entries.
MaxWriterK == 2
MaxWriterCells == 6

\* SpecParse: header values are 1..MaxHdr, bodies have at most MaxBodyDim
\* rows and MaxBodyDim columns.
MaxHdr == 2
MaxBodyDim == 2

\* Spec: the requested widths are 0..MaxK, at most MaxWidths of them; header
\* values k and r are 1..MaxK and n is 1..MaxK+1; a body has at most MaxK
\* rows and MaxK+1 columns.
MaxK == 2
MaxWidths == 2

-----------------------------------------------------------------------------
(* Matrices *)

Rows(M) == Len(M)
Cols(M) == Len(M[1])

\* arr.shape of a rectangular nested list
Shape(M) == <<Rows(M), Cols(M)>>

\* M[:, j] with j 0-based
Column(M, j) == [i \in 1..Len(M) |-> M[i][j + 1]]

\* M[i, :] with i 0-based
Row(M, i) == M[i + 1]

\* All rows x cols matrices over the entries E
Matrices(rows, cols, E) == [1..rows -> [1..cols -> E]]

BinaryMatrices ==
    UNION { Matrices(rows, cols, {0, 1}) :
              <<rows, cols>> \in { d \in (1..MaxRows) \X (1..MaxCols) :
                                     d[1] * d[2] <= MaxCells } }

\* np.nonzero(v)[0]: the 0-based positions of the nonzero entries, ascending
nonzero(v) ==
    LET F[i \in 0..Len(v)] ==
            IF i = 0 THEN <<>>
            ELSE IF v[i] # 0 THEN Append(F[i - 1], i - 1) ELSE F[i - 1]
    IN  F[Len(v)]

-----------------------------------------------------------------------------
(* dslx_codegen.py: the expression compilers *)

NoRaise == "none"

\* The helper inside G_to_x: let parity_<col_idx> = m[i+:u1] ^ ... ;
G_col_to_x(col, col_idx) ==
    [name |-> "parity", idx |-> col_idx,
     xors |-> [t \in 1..Len(nonzero(col)) |->
                  [bus |-> "m", bit |-> nonzero(col)[t]]]]

\* A compiler's return value: the bindings, the final expression, and the
\* exception raised instead, if any.
Compiled(lets, concat, cast, bound) ==
    [raised |-> NoRaise, lets |-> lets,
     expr |-> [concat |-> concat, cast |-> cast, bound |-> bound]]

Raised(exc) ==
    [raised |-> exc, lets |-> <<>>,
     expr |-> [concat |-> <<>>, cast |-> "", bound |-> ""]]

\* A plausible slip: the parity columns read from the identity block.
G_to_x_identity_block(G, r) ==
    LET k == Rows(G)
    IN  IF \E i \in 0..(r - 1) : i >= Cols(G)
        THEN Raised("IndexError")
        ELSE Compiled([i \in 1..r |-> G_col_to_x(Column(G, i - 1), i - 1)],
                      [i \in 1..r |-> [name |-> "parity", idx |-> r - (i - 1) - 1]],
                      "uN[MAX_PARITY_WIDTH]", "")

\* G[:, k + i] raises IndexError when k + i is not a column of G.
G_to_x(G, r) ==
    LET k == Rows(G)
    IN  IF \E i \in 0..(r - 1) : k + i >= Cols(G)
        THEN Raised("IndexError")
        ELSE Compiled([i \in 1..r |-> G_col_to_x(Column(G, k + (i - 1)), i - 1)],
                      [i \in 1..r |-> [name |-> "parity", idx |-> r - (i - 1) - 1]],
                      "uN[MAX_PARITY_WIDTH]", "")

\* The helper inside syndrome_to_x: let syndrome_<row_idx> = cw[i+:u1] ^ ... ;
syndrome_bit_to_x(row, row_idx) ==
    [name |-> "syndrome", idx |-> row_idx,
     xors |-> [t \in 1..Len(nonzero(row)) |->
                  [bus |-> "cw", bit |-> nonzero(row)[t]]]]

\* A plausible slip: the row index used as the label.
syndrome_to_x_unreversed(H) ==
    LET r == Rows(H)
    IN  Compiled([i \in 1..r |-> syndrome_bit_to_x(Row(H, i - 1), i - 1)],
                 [i \in 1..r |-> [name |-> "syndrome", idx |-> r - (i - 1) - 1]],
                 "uN[MAX_PARITY_WIDTH]", "syndrome")

syndrome_to_x(H) ==
    LET r == Rows(H)
    IN  Compiled([i \in 1..r |-> syndrome_bit_to_x(Row(H, i - 1), r - (i - 1) - 1)],
                 [i \in 1..r |-> [name |-> "syndrome", idx |-> r - (i - 1) - 1]],
                 "uN[MAX_PARITY_WIDTH]", "syndrome")

\* str() of one array element: its decimal digits
DigitChar(d) == <<"0", "1", "2", "3", "4", "5", "6", "7", "8", "9">>[d + 1]

RECURSIVE astype_str(_)
astype_str(v) ==
    IF v < 10 THEN <<DigitChar(v)>>
    ELSE astype_str(v \div 10) \o <<DigitChar(v % 10)>>

\* "".join(col.astype(str))
RECURSIVE join_digits(_)
join_digits(col) ==
    IF col = <<>> THEN <<>>
    ELSE astype_str(Head(col)) \o join_digits(Tail(col))

Reverse(s) == [i \in 1..Len(s) |-> s[Len(s) + 1 - i]]

\* The helper inside H_to_x:
\*   let parity_check_matrix_<col_idx> = u<r>:0b<digits> as uN[MAX_PARITY_WIDTH];
H_col_to_x(col, col_idx) ==
    [name |-> "parity_check_matrix", idx |-> col_idx, width |-> Len(col),
     digits |-> join_digits(col), cast |-> "uN[MAX_PARITY_WIDTH]"]

\* A plausible slip: the bottom row printed first.
H_to_x_bottom_first(H) ==
    LET n == Cols(H)
    IN  Compiled([i \in 1..n |-> H_col_to_x(Reverse(Column(H, i - 1)), i - 1)],
                 [i \in 1..n |-> [name |-> "parity_check_matrix",
                                  idx |-> n - (i - 1) - 1]],
                 "", "parity_check_matrix")

H_to_x(H) ==
    LET n == Cols(H)
    IN  Compiled([i \in 1..n |-> H_col_to_x(Column(H, i - 1), i - 1)],
                 [i \in 1..n |-> [name |-> "parity_check_matrix",
                                  idx |-> n - (i - 1) - 1]],
                 "", "parity_check_matrix")

-----------------------------------------------------------------------------
(* matrix_parser.py: _parse_matrix_file *)

\* A persisted matrix file, by what the parser looks for in its text:
\*   exists   the file can be opened
\*   k, r, n  what each header pattern captures: <<>> when re.search finds
\*            nothing (the line is missing or holds no digits), <<v>> otherwise
\*   marker   the text holds "<symbol> ="
\*   bracket  a "[" follows the marker and a "]" follows that "["
\*   body     the nested list that ast.literal_eval reads from the block
MatrixFile(exists, k, r, n, marker, bracket, body) ==
    [exists |-> exists, k |-> k, r |-> r, n |-> n,
     marker |-> marker, bracket |-> bracket, body |-> body]

NoBody == <<<<0>>>>

AbsentFile == MatrixFile(FALSE, <<>>, <<>>, <<>>, FALSE, FALSE, NoBody)

\* os.path.join(matrix_dir, f"hsiao_{symbol}_k{k}.txt")
Path(symbol, k) == [symbol |-> symbol, k |-> k]

InUint8(mat) ==
    \A i \in 1..Len(mat) : \A j \in 1..Len(mat[i]) : mat[i][j] \in 0..255

\* The entries of np.array(mat, dtype=np.uint8) when the conversion wraps.
WrapUint8(mat) ==
    [i \in 1..Len(mat) |-> [j \in 1..Len(mat[i]) |-> mat[i][j] % 256]]

\* ((arr == 0) | (arr == 1)).all()
AllBinary(arr) ==
    \A i \in 1..Len(arr) : \A j \in 1..Len(arr[i]) : arr[i][j] \in {0, 1}

\* What _parse_matrix_file returns or raises.  path_named and symbol_named
\* hold the path and the symbol when the exception's message contains them.
Parsed(k, r, n, arr) ==
    [exc |-> NoRaise, what |-> "", path_named |-> <<>>, symbol_named |-> <<>>,
     k |-> k, r |-> r, n |-> n, arr |-> arr]

ParseRaises(exc, what, path_named, symbol_named) ==
    [exc |-> exc, what |-> what, path_named |-> path_named,
     symbol_named |-> symbol_named, k |-> 0, r |-> 0, n |-> 0, arr |-> <<>>]

\* np.array(mat, dtype=np.uint8) of an integer outside 0..255 depends on the
\* installed numpy: releases before 2.0 wrap it modulo 256, later ones raise
\* OverflowError.  np is "wraps" or "raises".
_parse_matrix_file(file, path, symbol, np) ==
    IF ~file.exists
    THEN ParseRaises("FileNotFoundError", "open", <<path>>, <<>>)
    ELSE IF file.k = <<>> \/ file.r = <<>> \/ file.n = <<>>
    THEN ParseRaises("AttributeError", "NoneType has no attribute group",
                     <<>>, <<>>)
    ELSE IF ~file.marker
    THEN ParseRaises("ValueError", "could not find symbol", <<path>>, <<symbol>>)
    ELSE IF ~file.bracket
    THEN ParseRaises("ValueError", "bracket block not found", <<path>>, <<>>)
    ELSE IF np = "raises" /\ ~InUint8(file.body)
    THEN ParseRaises("OverflowError", "out of bounds for uint8", <<>>, <<>>)
    ELSE LET k == file.k[1]
             r == file.r[1]
             n == file.n[1]
             arr == WrapUint8(file.body)
             expected_rows == IF symbol = "G" THEN k ELSE r
         IN  IF ~AllBinary(arr)
             THEN ParseRaises("ValueError", "non-binary entries",
                              <<path>>, <<symbol>>)
             ELSE IF Shape(arr) # <<expected_rows, n>>
             THEN ParseRaises("ValueError", "shape does not match expected",
                              <<path>>, <<symbol>>)
             ELSE Parsed(k, r, n, arr)

parse_g_file(file, path, np) == _parse_matrix_file(file, path, "G", np)

parse_h_file(file, path, np) == _parse_matrix_file(file, path, "H", np)

-----------------------------------------------------------------------------
(* SpecCompile: each compiler applied to every binary matrix in the bounds *)

NoCompiled == Raised("not run")

IdleCompile == cin = <<>> /\ cout = NoCompiled

IdleParse == pin = <<>> /\ pout = <<>>

IdleRun ==
    /\ k_list = <<>> /\ idx = 0 /\ loc = <<>> /\ codes = <<>> /\ reads = <<>>
    /\ compiled = <<>> /\ err = <<>> /\ enc_out = <<>> /\ dec_out = <<>>

IdleWriter == wargs = <<>> /\ wcode = <<>> /\ g_out = <<>> /\ h_out = <<>>

InitCompile ==
    /\ pc = "start"
    /\ numpy = "wraps"
    /\ cin \in [M : BinaryMatrices]
    /\ cout = NoCompiled
    /\ IdleParse /\ IdleRun /\ IdleWriter

\* G_to_x as render_encoder_jinja2_template calls it on a Code with
\* G of shape k x n and r = n - k parity bits.
CompileEncoder ==
    /\ pc = "start"
    /\ Cols(cin.M) > Rows(cin.M)
    /\ cout' = G_to_x(cin.M, Cols(cin.M) - Rows(cin.M))
    /\ pc' = "G_to_x"
    /\ UNCHANGED <<numpy, cin, pin, pout, k_list, idx, loc, codes, reads,
                   compiled, err, enc_out, dec_out, wargs, wcode, g_out, h_out>>

CompileSyndrome ==
    /\ pc = "start"
    /\ cout' = syndrome_to_x(cin.M)
    /\ pc' = "syndrome_to_x"
    /\ UNCHANGED <<numpy, cin, pin, pout, k_list, idx, loc, codes, reads,
                   compiled, err, enc_out, dec_out, wargs, wcode, g_out, h_out>>

CompileColumns ==
    /\ pc = "start"
    /\ cout' = H_to_x(cin.M)
    /\ pc' = "H_to_x"
    /\ UNCHANGED <<numpy, cin, pin, pout, k_list, idx, loc, codes, reads,
                   compiled, err, enc_out, dec_out, wargs, wcode, g_out, h_out>>

NextCompile == CompileEncoder \/ CompileSyndrome \/ CompileColumns

SpecCompile == InitCompile /\ [][NextCompile]_vars

\* The operands of a binding, as the set of bit positions it XORs.
Operands(binding) == { binding.xors[t].bit : t \in 1..Len(binding.xors) }

\* Each operand of a binding occurs once, and all read the bus b.
OperandsOnce(binding, b) ==
    /\ Cardinality(Operands(binding)) = Len(binding.xors)
    /\ \A t \in 1..Len(binding.xors) : binding.xors[t].bus = b

\* The final expression names name_{cnt-1}, ..., name_0 in that order.
Descending(expr, name, cnt) ==
    /\ Len(expr.concat) = cnt
    /\ \A t \in 1..cnt : expr.concat[t] = [name |-> name, idx |-> cnt - t]

\* C1: G_to_x on a k x n generator matrix with r = n - k emits exactly r
\* bindings parity_0 .. parity_{r-1} in that order; parity_i XORs exactly the
\* message bits m[j] with G[j][k+i] = 1, each once; the final expression
\* concatenates parity_{r-1} .. parity_0 and casts the whole to
\* uN[MAX_PARITY_WIDTH].
C1_EncoderParity ==
    pc = "G_to_x" =>
        LET G == cin.M
            k == Rows(G)
            r == Cols(G) - k
        IN  /\ cout.raised = NoRaise
            /\ Len(cout.lets) = r
            /\ \A i \in 0..(r - 1) :
                 /\ cout.lets[i + 1].name = "parity"
                 /\ cout.lets[i + 1].idx = i
                 /\ Operands(cout.lets[i + 1])
                      = { j \in 0..(k - 1) : G[j + 1][k + i + 1] = 1 }
                 /\ OperandsOnce(cout.lets[i + 1], "m")
            /\ Descending(cout.expr, "parity", r)
            /\ cout.expr.cast = "uN[MAX_PARITY_WIDTH]"

\* r = 3 parity bits over k = 2 message bits, with a two-operand XOR.
C1_Witness ==
    /\ pc = "G_to_x"
    /\ Rows(cin.M) = 2 /\ Cols(cin.M) = 5
    /\ Len(cout.lets) = 3
    /\ Len(cout.lets[1].xors) = 2
    /\ Len(cout.lets[2].xors) = 1
    /\ cout.expr.concat[1].idx = 2 /\ cout.expr.concat[3].idx = 0

\* C2: syndrome_to_x on an r x n matrix emits one binding per row; row i is
\* labelled syndrome_{r-1-i} and XORs exactly the codeword bits cw[j] with
\* H[i][j] = 1, each once; the labels are 0..r-1, each once; the value
\* "syndrome" concatenates syndrome_{r-1} .. syndrome_0, cast to
\* uN[MAX_PARITY_WIDTH], so its most significant chunk is row 0's XOR.
C2_DecoderSyndrome ==
    pc = "syndrome_to_x" =>
        LET H == cin.M
            r == Rows(H)
            n == Cols(H)
        IN  /\ cout.raised = NoRaise
            /\ Len(cout.lets) = r
            /\ \A i \in 0..(r - 1) :
                 /\ cout.lets[i + 1].name = "syndrome"
                 /\ cout.lets[i + 1].idx = r - 1 - i
                 /\ Operands(cout.lets[i + 1])
                      = { j \in 0..(n - 1) : H[i + 1][j + 1] = 1 }
                 /\ OperandsOnce(cout.lets[i + 1], "cw")
            /\ { cout.lets[t].idx : t \in 1..r } = 0..(r - 1)
            /\ Descending(cout.expr, "syndrome", r)
            /\ cout.expr.cast = "uN[MAX_PARITY_WIDTH]"
            /\ cout.expr.bound = "syndrome"
            /\ cout.expr.concat[1].idx = cout.lets[1].idx

\* r = 3: row 0 is labelled syndrome_2 and row 2 syndrome_0, rows differ.
C2_Witness ==
    /\ pc = "syndrome_to_x"
    /\ Rows(cin.M) = 3
    /\ cout.lets[1].idx = 2 /\ cout.lets[3].idx = 0
    /\ Len(cout.lets[1].xors) = 2
    /\ Len(cout.lets[3].xors) = 1

\* Reading one digit of a binary literal.
BitOf(c) == IF c = "1" THEN 1 ELSE IF c = "0" THEN 0 ELSE -1

\* The value of a binary literal, most significant digit first.
RECURSIVE LiteralValue(_)
LiteralValue(digits) ==
    IF digits = <<>> THEN 0
    ELSE 2 * LiteralValue(SubSeq(digits, 1, Len(digits) - 1))
           + BitOf(digits[Len(digits)])

RECURSIVE Pow2(_)
Pow2(e) == IF e = 0 THEN 1 ELSE 2 * Pow2(e - 1)

RECURSIVE ColumnValue(_, _, _)
ColumnValue(H, j, i) ==
    IF i > Rows(H) THEN 0
    ELSE H[i][j] * Pow2(Rows(H) - i) + ColumnValue(H, j, i + 1)

\* C3: H_to_x on an r x n matrix emits n bindings parity_check_matrix_j, each
\* a width-r binary literal whose digits, most significant first, are
\* H[0][j] .. H[r-1][j]; the combined table concatenates them n-1 .. 0.
C3_ColumnRoundTrip ==
    pc = "H_to_x" =>
        LET H == cin.M
            r == Rows(H)
            n == Cols(H)
        IN  /\ cout.raised = NoRaise
            /\ Len(cout.lets) = n
            /\ \A j \in 0..(n - 1) :
                 LET b == cout.lets[j + 1]
                 IN  /\ b.name = "parity_check_matrix"
                     /\ b.idx = j
                     /\ b.width = r
                     /\ Len(b.digits) = r
                     /\ \A i \in 0..(r - 1) : BitOf(b.digits[i + 1]) = H[i + 1][j + 1]
                     /\ LiteralValue(b.digits) = ColumnValue(H, j + 1, 1)
            /\ Descending(cout.expr, "parity_check_matrix", n)

\* A 3-row matrix with an asymmetric column: top 1, bottom 0.
C3_Witness ==
    /\ pc = "H_to_x"
    /\ Rows(cin.M) = 3 /\ Cols(cin.M) = 2
    /\ cout.lets[1].digits = <<"1", "1", "0">>
    /\ cout.lets[2].digits = <<"0", "0", "1">>

-----------------------------------------------------------------------------
(* SpecParse: _parse_matrix_file applied to every file in the bounds *)

\* Matrix entries tried: a negative one, the two binary ones, a small
\* non-binary one, and one beyond the range of uint8.
Entries == {-1, 0, 1, 2, 256}

HeaderFields(max) == {<<>>} \cup { <<v>> : v \in 1..max }

RawBodies ==
    UNION { Matrices(rows, cols, Entries) :
              <<rows, cols>> \in (1..MaxBodyDim) \X (1..MaxBodyDim) }

\* A file without a bracket block has no body.
ParseFiles ==
    {AbsentFile}
    \cup { MatrixFile(TRUE, h[1], h[2], h[3], b[1], b[2], NoBody) :
             h \in HeaderFields(MaxHdr) \X HeaderFields(MaxHdr) \X HeaderFields(MaxHdr),
             b \in {<<FALSE, FALSE>>, <<TRUE, FALSE>>} }
    \cup { MatrixFile(TRUE, h[1], h[2], h[3], TRUE, TRUE, body) :
             h \in HeaderFields(MaxHdr) \X HeaderFields(MaxHdr) \X HeaderFields(MaxHdr),
             body \in RawBodies }

NumpyBuilds == {"wraps", "raises"}

InitParse ==
    /\ pc = "start"
    /\ numpy \in NumpyBuilds
    /\ pin \in [symbol : {"G", "H"}, file : ParseFiles]
    /\ pout = <<>>
    /\ IdleCompile /\ IdleRun /\ IdleWriter

ParseGFile ==
    /\ pc = "start"
    /\ pin.symbol = "G"
    /\ pout' = parse_g_file(pin.file, Path("G", 1), numpy)
    /\ pc' = "parsed"
    /\ UNCHANGED <<numpy, cin, cout, pin, k_list, idx, loc, codes, reads,
                   compiled, err, enc_out, dec_out, wargs, wcode, g_out, h_out>>

ParseHFile ==
    /\ pc = "start"
    /\ pin.symbol = "H"
    /\ pout' = parse_h_file(pin.file, Path("H", 1), numpy)
    /\ pc' = "parsed"
    /\ UNCHANGED <<numpy, cin, cout, pin, k_list, idx, loc, codes, reads,
                   compiled, err, enc_out, dec_out, wargs, wcode, g_out, h_out>>

NextParse == ParseGFile \/ ParseHFile

SpecParse == InitParse /\ [][NextParse]_vars

\* The file's body is reached: it opens, its header matches, its block is there.
BodyReached(file) ==
    /\ file.exists
    /\ file.k # <<>> /\ file.r # <<>> /\ file.n # <<>>
    /\ file.marker /\ file.bracket

HasNonBinaryEntry(body) ==
    \E i \in 1..Len(body) : \E j \in 1..Len(body[i]) : body[i][j] \notin {0, 1}

\* C6: a file whose matrix body holds an integer other than 0 and 1, of any
\* sign or magnitude, is rejected with the validation error that names the
\* file and the symbol, and no matrix is returned.
C6_BinaryValidation ==
    (pc = "parsed" /\ BodyReached(pin.file) /\ HasNonBinaryEntry(pin.file.body))
        => /\ pout.exc = "ValueError"
           /\ pout.what = "non-binary entries"
           /\ pout.path_named = <<Path(pin.symbol, 1)>>
           /\ pout.symbol_named = <<pin.symbol>>

\* C9: a file with a missing or non-numeric header field is rejected with an
\* error whose diagnostic includes the file path.
C9_HeaderParseError ==
    (/\ pc = "parsed"
     /\ pin.file.exists
     /\ (pin.file.k = <<>> \/ pin.file.r = <<>> \/ pin.file.n = <<>>))
        => /\ pout.exc # NoRaise
           /\ pout.path_named = <<Path(pin.symbol, 1)>>

-----------------------------------------------------------------------------
(* Spec: a run of dslx_codegen's main *)

\* The bodies of the files of a run: a checkerboard of zeros and ones whose
\* top-left entry is v: binary (0), non-binary (2), or beyond uint8 (256).
FillBody(rows, cols, v) ==
    [i \in 1..rows |-> [j \in 1..cols |->
        IF i = 1 /\ j = 1 THEN v ELSE (i + j) % 2]]

CornerEntries == {0, 2, 256}

RunBodies ==
    { FillBody(d[1], d[2], v) : d \in (1..MaxK) \X (1..(MaxK + 1)),
                                v \in CornerEntries }

RunHeaders ==
    HeaderFields(MaxK) \X HeaderFields(MaxK) \X HeaderFields(MaxK + 1)

RunFiles ==
    {AbsentFile}
    \cup { MatrixFile(TRUE, h[1], h[2], h[3], b[1], b[2], NoBody) :
             h \in RunHeaders, b \in {<<FALSE, FALSE>>, <<TRUE, FALSE>>} }
    \cup { MatrixFile(TRUE, h[1], h[2], h[3], TRUE, TRUE, body) :
             h \in RunHeaders, body \in RunBodies }

\* The requested widths: no width twice and the positive ones ascending,
\* like DSLX_SUPPORTED_K, so every file is read at most once and its content
\* can be chosen when it is read; a non-positive width may stand anywhere.
KLists ==
    { s \in UNION { [1..len -> 0..MaxK] : len \in 1..MaxWidths } :
        \A i, j \in 1..Len(s) :
            i < j => /\ s[i] # s[j]
                     /\ (s[i] > 0 /\ s[j] > 0) => s[i] < s[j] }

\* What parsing the file at hsiao_<symbol>_k<k>.txt can return or raise under
\* a numpy build, over every file that may be stored there: the set of
\* <<symbol, k, build, outcome>>.
RunOutcomeTable ==
    { <<q[1], q[2], q[3], _parse_matrix_file(file, Path(q[1], q[2]), q[1], q[3])>> :
        q \in {"G", "H"} \X (1..MaxK) \X NumpyBuilds, file \in RunFiles }

RunOutcomes(symbol, k, np) ==
    { e[4] : e \in { t \in RunOutcomeTable :
                        t[1] = symbol /\ t[2] = k /\ t[3] = np } }

\* The exception that ends a run: its type, its message (what), the field and
\* the paths the message names, and where it was raised (load or render).
NoErr ==
    [exc |-> NoRaise, what |-> "", field |-> "", stage |-> "", paths |-> <<>>]

Err(exc, what, field, stage, paths) ==
    [exc |-> exc, what |-> what, field |-> field, stage |-> stage,
     paths |-> paths]

NoHeader == [k |-> 0, r |-> 0, n |-> 0]

Header(res) == [k |-> res.k, r |-> res.r, n |-> res.n]

\* The locals of the loop body: the iteration, the two paths, what
\* parse_g_file returned (k_g, r_g, n_g, G) and the header parse_h_file
\* returned (k_h, r_h, n_h).
NoLocals ==
    [at |-> 0, g_path |-> <<>>, h_path |-> <<>>,
     g |-> NoHeader, G |-> <<>>, h |-> NoHeader]

\* The dict codes, in insertion order.  Each entry also remembers the loop
\* iteration that stored it.
dict_has(d, key) == \E i \in 1..Len(d) : d[i].key = key

dict_get(d, key) == d[CHOOSE i \in 1..Len(d) : d[i].key = key]

dict_set(d, entry) ==
    IF dict_has(d, entry.key)
    THEN [i \in 1..Len(d) |-> IF d[i].key = entry.key THEN entry ELSE d[i]]
    ELSE Append(d, entry)

\* A plausible slip: r is not compared.
consistency_without_r(g, h) ==
    IF g.k # h.k THEN "k"
    ELSE IF g.n # h.n THEN "n"
    ELSE ""

\* The three comparisons of parse_g_and_h_files: the field the raised
\* ValueError names, "" when none is raised.
consistency(g, h) ==
    IF g.k # h.k THEN "k"
    ELSE IF g.r # h.r THEN "r"
    ELSE IF g.n # h.n THEN "n"
    ELSE ""

\* A plausible slip: a failing width is skipped and the loop goes on.
loop_skips_failure(failed, i, widths) ==
    IF i < Len(widths)
    THEN [pc |-> "parse_g", idx |-> i + 1]
    ELSE [pc |-> "render_encoder", idx |-> i + 1]

\* Where the run goes after iteration i of the loop over the widths: an
\* exception leaves parse_g_and_h_files and main; otherwise the next
\* iteration, or the return to main, which renders the encoder next.
loop_next(failed, i, widths) ==
    IF failed THEN [pc |-> "error", idx |-> i]
    ELSE IF i < Len(widths)
    THEN [pc |-> "parse_g", idx |-> i + 1]
    ELSE [pc |-> "render_encoder", idx |-> i + 1]

Init ==
    /\ pc = "parse_g"
    /\ numpy \in NumpyBuilds
    /\ k_list \in KLists
    /\ idx = 1
    /\ loc = NoLocals
    /\ codes = <<>>
    /\ reads = <<>>
    /\ compiled = <<>>
    /\ err = NoErr
    /\ enc_out = <<>>
    /\ dec_out = <<>>
    /\ IdleCompile /\ IdleParse /\ IdleWriter

\* One iteration of the loop, up to and including parse_g_file.  The file at
\* g_path is any file of RunFiles; files that parse alike lead to one state.
\* An exception unwinds parse_g_and_h_files and main: the dict under
\* construction and the matrices are dropped.
ParseG ==
    /\ pc = "parse_g"
    /\ LET k == k_list[idx]
           g_path == Path("G", k)
           h_path == Path("H", k)
       IN  IF k <= 0
           THEN /\ err' = Err("ValueError", "k must be positive", "", "load", <<>>)
                /\ pc' = loop_next(TRUE, idx, k_list).pc
                /\ idx' = loop_next(TRUE, idx, k_list).idx
                /\ codes' = IF pc' = "error" THEN <<>> ELSE codes
                /\ loc' = [NoLocals EXCEPT !.at = idx]
                /\ UNCHANGED reads
           ELSE \E res \in RunOutcomes("G", k, numpy) :
                  LET failed == res.exc # NoRaise
                  IN  /\ reads' = Append(reads, g_path)
                      /\ IF failed
                         THEN /\ err' = Err(res.exc, res.what, "", "load", res.path_named)
                              /\ pc' = loop_next(TRUE, idx, k_list).pc
                              /\ idx' = loop_next(TRUE, idx, k_list).idx
                              /\ codes' = IF pc' = "error" THEN <<>> ELSE codes
                              /\ loc' = [NoLocals EXCEPT !.at = idx,
                                           !.g_path = g_path, !.h_path = h_path]
                         ELSE /\ loc' = [at |-> idx, g_path |-> g_path,
                                         h_path |-> h_path, g |-> Header(res),
                                         G |-> res.arr, h |-> NoHeader]
                              /\ pc' = "parse_h"
                              /\ UNCHANGED <<err, idx, codes>>
    /\ UNCHANGED <<numpy, cin, cout, pin, pout, k_list, compiled,
                   enc_out, dec_out, wargs, wcode, g_out, h_out>>

\* The rest of the iteration: parse_h_file, the three comparisons, the store.
ParseH ==
    /\ pc = "parse_h"
    /\ \E res \in RunOutcomes("H", k_list[idx], numpy) :
         LET field == IF res.exc = NoRaise
                      THEN consistency(loc.g, Header(res)) ELSE ""
             failed == res.exc # NoRaise \/ field # ""
         IN  /\ reads' = Append(reads, loc.h_path)
             /\ pc' = loop_next(failed, idx, k_list).pc
             /\ idx' = loop_next(failed, idx, k_list).idx
             /\ IF res.exc # NoRaise
                THEN /\ err' = Err(res.exc, res.what, "", "load", res.path_named)
                     /\ loc' = [loc EXCEPT !.G = <<>>]
                     /\ codes' = IF pc' = "error" THEN <<>> ELSE codes
                ELSE IF field # ""
                THEN /\ err' = Err("ValueError", "G and H matrices have different",
                                   field, "load", <<loc.g_path, loc.h_path>>)
                     /\ loc' = [loc EXCEPT !.h = Header(res), !.G = <<>>]
                     /\ codes' = IF pc' = "error" THEN <<>> ELSE codes
                ELSE /\ codes' = dict_set(codes,
                                   [key |-> loc.g.k, r |-> loc.g.r, n |-> loc.g.n,
                                    G |-> loc.G, H |-> res.arr, at |-> idx])
                     /\ loc' = [loc EXCEPT !.h = Header(res), !.G = <<>>]
                     /\ UNCHANGED err
    /\ UNCHANGED <<numpy, cin, cout, pin, pout, k_list, compiled,
                   enc_out, dec_out, wargs, wcode, g_out, h_out>>

\* f"secded_enc_{n}_{k}" and the like
FragmentName(prefix, n, k) == [prefix |-> prefix, n |-> n, k |-> k]

\* The compiler calls of render_encoder_jinja2_template, in dict order.
EncoderCalls(d) ==
    [i \in 1..Len(d) |->
        [fn |-> "G_to_x", k |-> d[i].key,
         name |-> FragmentName("secded_enc", d[i].n, d[i].key),
         text |-> G_to_x(d[i].G, d[i].r)]]

\* The compiler calls of render_decoder_jinja2_template, in dict order.
DecoderCalls(d) ==
    [j \in 1..(2 * Len(d)) |->
        LET i == (j + 1) \div 2
        IN  IF j % 2 = 1
            THEN [fn |-> "syndrome_to_x", k |-> d[i].key,
                  name |-> FragmentName("secded_dec_syndrome", d[i].n, d[i].key),
                  text |-> syndrome_to_x(d[i].H)]
            ELSE [fn |-> "H_to_x", k |-> d[i].key,
                  name |-> FragmentName("secded_dec_H", d[i].n, d[i].key),
                  text |-> H_to_x(d[i].H)]]

\* The calls made until the first one that raises, that one included.
UntilRaise(calls) ==
    LET bad == { i \in 1..Len(calls) : calls[i].text.raised # NoRaise }
    IN  IF bad = {} THEN calls
        ELSE SubSeq(calls, 1, CHOOSE i \in bad : \A j \in bad : i <= j)

\* template.render(mapping) + "\n": the document is the bound mapping; the
\* template's own text is not modelled.
Rendered(calls) ==
    [mapping |-> [i \in 1..Len(calls) |->
                     [name |-> calls[i].name, text |-> calls[i].text]],
     trailer |-> "\n"]

\* render_encoder_jinja2_template; the template file may fail to open.
RenderEncoder ==
    /\ pc = "render_encoder"
    /\ \E template_opens \in BOOLEAN :
         LET calls == UntilRaise(EncoderCalls(codes))
             raised == \E i \in 1..Len(calls) : calls[i].text.raised # NoRaise
         IN  IF ~template_opens
             THEN /\ err' = Err("FileNotFoundError", "open", "", "render", <<>>)
                  /\ pc' = "error"
                  /\ UNCHANGED <<compiled, enc_out>>
             ELSE /\ compiled' = compiled \o [i \in 1..Len(calls) |->
                                    [fn |-> calls[i].fn, k |-> calls[i].k]]
                  /\ IF raised
                     THEN /\ err' = Err(calls[Len(calls)].text.raised,
                                        "index out of bounds", "", "render", <<>>)
                          /\ pc' = "error"
                          /\ UNCHANGED enc_out
                     ELSE /\ enc_out' = Append(enc_out, Rendered(calls))
                          /\ pc' = "render_decoder"
                          /\ UNCHANGED err
    /\ UNCHANGED <<numpy, cin, cout, pin, pout, k_list, idx, loc, codes, reads,
                   dec_out, wargs, wcode, g_out, h_out>>

\* render_decoder_jinja2_template; the template file may fail to open.
RenderDecoder ==
    /\ pc = "render_decoder"
    /\ \E template_opens \in BOOLEAN :
         LET calls == DecoderCalls(codes)
         IN  IF ~template_opens
             THEN /\ err' = Err("FileNotFoundError", "open", "", "render", <<>>)
                  /\ pc' = "error"
                  /\ UNCHANGED <<compiled, dec_out>>
             ELSE /\ compiled' = compiled \o [i \in 1..Len(calls) |->
                                    [fn |-> calls[i].fn, k |-> calls[i].k]]
                  /\ dec_out' = Append(dec_out, Rendered(calls))
                  /\ pc' = "done"
                  /\ UNCHANGED err
    /\ UNCHANGED <<numpy, cin, cout, pin, pout, k_list, idx, loc, codes, reads,
                   enc_out, wargs, wcode, g_out, h_out>>

Next == ParseG \/ ParseH \/ RenderEncoder \/ RenderDecoder

Spec == Init /\ [][Next]_vars

\* The dict returned by parse_g_and_h_files reached main.
Loaded == idx = Len(k_list) + 1 /\ err.stage # "load"

\* C4: when load succeeds, the mapping has an entry for every requested
\* width, keyed by that width and parsed from that width's own files; a run
\* that ends with status zero has rendered every width's fragments.
C4_EveryWidthHasItsCode ==
    /\ Loaded =>
         \A i \in 1..Len(k_list) :
            /\ dict_has(codes, k_list[i])
            /\ dict_get(codes, k_list[i]).at = i
    /\ pc = "done" =>
         \A i \in 1..Len(k_list) :
            /\ \E t \in 1..Len(enc_out[1].mapping) :
                 /\ enc_out[1].mapping[t].name.prefix = "secded_enc"
                 /\ enc_out[1].mapping[t].name.k = k_list[i]
            /\ \A prefix \in {"secded_dec_syndrome", "secded_dec_H"} :
                 \E t \in 1..Len(dec_out[1].mapping) :
                    /\ dec_out[1].mapping[t].name.prefix = prefix
                    /\ dec_out[1].mapping[t].name.k = k_list[i]

\* C5: every Code of a successful load has n = k + r, G of shape k x n, H of
\* shape r x n and binary entries, so encoder compilation never indexes
\* outside G.
C5_LoadedCodeInvariants ==
    Loaded =>
        /\ \A i \in 1..Len(codes) :
             LET c == codes[i]
             IN  /\ c.n = c.key + c.r
                 /\ Shape(c.G) = <<c.key, c.n>>
                 /\ Shape(c.H) = <<c.r, c.n>>
                 /\ AllBinary(c.G) /\ AllBinary(c.H)
                 /\ G_to_x(c.G, c.r).raised = NoRaise
        /\ err.exc # "IndexError"

\* The first of k, r, n in which two headers differ.
FirstDifference(g, h) ==
    LET names == <<"k", "r", "n">>
        gv == <<g.k, g.r, g.n>>
        hv == <<h.k, h.r, h.n>>
        diff == { i \in 1..3 : gv[i] # hv[i] }
    IN  names[CHOOSE i \in diff : \A j \in diff : i <= j]

\* Both files of the current iteration passed their own checks.
BothParsed == loc.at > 0 /\ loc.g # NoHeader /\ loc.h # NoHeader

\* C7: when both files of a width pass their own checks and their headers
\* differ, load fails with the error that names the first differing field (in
\* the order k, r, n) and both paths, and no Code is stored for that width;
\* when the headers are equal the pair is accepted and stored.
C7_CrossConsistency ==
    BothParsed =>
        IF loc.g # loc.h
        THEN /\ pc = "error"
             /\ err.exc = "ValueError"
             /\ err.what = "G and H matrices have different"
             /\ err.field = FirstDifference(loc.g, loc.h)
             /\ err.paths = <<Path("G", k_list[loc.at]), Path("H", k_list[loc.at])>>
             /\ \A i \in 1..Len(codes) : codes[i].at # loc.at
        ELSE /\ err.stage # "load"
             /\ \E i \in 1..Len(codes) :
                  /\ codes[i].at = loc.at
                  /\ codes[i].key = loc.g.k
                  /\ codes[i].r = loc.g.r
                  /\ codes[i].n = loc.g.n

\* The second width's files agree on k and differ in r and n: r is named.
C7_Witness ==
    /\ pc = "error"
    /\ BothParsed
    /\ loc.at = 2
    /\ loc.g.k = loc.h.k /\ loc.g.r # loc.h.r /\ loc.g.n # loc.h.n
    /\ err.field = "r"

\* C8: widths are processed in the requested order; when a width fails to
\* load the run stops there: no file of a later width is read, nothing is
\* compiled and nothing is written to either output; content is written only
\* after every requested width has loaded.
C8_FailFast ==
    /\ \A t \in 1..Len(reads) :
         reads[t] = Path(IF t % 2 = 1 THEN "G" ELSE "H", k_list[(t + 1) \div 2])
    /\ Len(reads) <= 2 * idx
    /\ err.stage = "load" =>
         /\ pc = "error"
         /\ ~ENABLED Next
         /\ idx <= Len(k_list)
         /\ compiled = <<>> /\ enc_out = <<>> /\ dec_out = <<>>
    /\ (compiled # <<>> \/ enc_out # <<>> \/ dec_out # <<>>) =>
         /\ Loaded
         /\ Len(reads) = 2 * Len(k_list)

\* The first of two widths fails in its H file: the second is never read.
C8_Witness ==
    /\ pc = "error"
    /\ err.stage = "load"
    /\ Len(k_list) = 2
    /\ idx = 1
    /\ reads = <<Path("G", k_list[1]), Path("H", k_list[1])>>
    /\ enc_out = <<>> /\ dec_out = <<>>

-----------------------------------------------------------------------------
(* SpecWriter: a run of eccgen's main *)

\* ", ".join over a row's entries, as np.array2string prints them
RECURSIVE RowEntries(_)
RowEntries(row) ==
    IF Len(row) = 1 THEN astype_str(row[1])
    ELSE astype_str(row[1]) \o <<",", " ">> \o RowEntries(Tail(row))

RECURSIVE RowsText(_)
RowsText(M) ==
    IF Len(M) = 1 THEN <<"[">> \o RowEntries(M[1]) \o <<"]">>
    ELSE <<"[">> \o RowEntries(M[1]) \o <<"]">> \o <<",", "\n", " ">>
           \o RowsText(Tail(M))

\* np.array2string(M, separator=", ", threshold=np.inf, max_line_width=np.inf)
\* as a sequence of characters: [[1, 0],\n [0, 1]]
array2string(M) == <<"[">> \o RowsText(M) \o <<"]">>

\* str.replace(old, new) for one-character old
replace(text, old, new) ==
    [i \in 1..Len(text) |-> IF text[i] = old THEN new ELSE text[i]]

\* file_header: the three header lines
file_header(k, r, n) ==
    << [label |-> "Number of data bits (k): ", value |-> astype_str(k)],
       [label |-> "Number of parity bits (r): ", value |-> astype_str(r)],
       [label |-> "Number of codeword bits (n): ", value |-> astype_str(n)] >>

\* The string written for one matrix.
matrix_str(M, print0) ==
    replace(array2string(M), "0", IF print0 THEN " " ELSE "0")

\* file_header + "\n<symbol> =\n" + matrix_str + "\n"
written(k, r, n, symbol, text) ==
    [header |-> file_header(k, r, n), symbol |-> symbol, matrix |-> text]

WriterCodes ==
    UNION { [r : {d[2]}, n : {d[1] + d[2]},
             G : Matrices(d[1], d[1] + d[2], {0, 1}),
             H : Matrices(d[2], d[1] + d[2], {0, 1})] :
              d \in { e \in (1..MaxWriterK) \X (1..MaxWriterK) :
                        /\ e[1] * (e[1] + e[2]) <= MaxWriterCells
                        /\ e[2] * (e[1] + e[2]) <= MaxWriterCells } }

InitWriter ==
    /\ pc = "generate"
    /\ numpy = "wraps"
    /\ wargs \in [k : 1..MaxWriterK, print0 : BOOLEAN]
    /\ wcode = <<>>
    /\ g_out = <<>>
    /\ h_out = <<>>
    /\ err = NoErr
    /\ k_list = <<>> /\ idx = 0 /\ loc = <<>> /\ codes = <<>> /\ reads = <<>>
    /\ compiled = <<>> /\ enc_out = <<>> /\ dec_out = <<>>
    /\ IdleCompile /\ IdleParse

\* hsiao_secded_code(args.k) and check_construction are outside this model:
\* the call returns some binary (r, n, G, H) for k, or the check raises.
Generate ==
    /\ pc = "generate"
    /\ \/ /\ \E c \in WriterCodes :
               /\ Rows(c.G) = wargs.k
               /\ wcode' = c
          /\ pc' = "write_G"
          /\ UNCHANGED err
       \/ /\ err' = Err("ValueError", "check_construction", "", "generate", <<>>)
          /\ pc' = "error"
          /\ UNCHANGED wcode
    /\ UNCHANGED <<numpy, cin, cout, pin, pout, k_list, idx, loc, codes, reads,
                   compiled, enc_out, dec_out, wargs, g_out, h_out>>

WriteG ==
    /\ pc = "write_G"
    /\ g_out' = Append(g_out, written(wargs.k, wcode.r, wcode.n, "G",
                                      matrix_str(wcode.G, wargs.print0)))
    /\ pc' = "write_H"
    /\ UNCHANGED <<numpy, cin, cout, pin, pout, k_list, idx, loc, codes, reads,
                   compiled, err, enc_out, dec_out, wargs, wcode, h_out>>

WriteH ==
    /\ pc = "write_H"
    /\ h_out' = Append(h_out, written(wargs.k, wcode.r, wcode.n, "H",
                                      matrix_str(wcode.H, wargs.print0)))
    /\ pc' = "done"
    /\ UNCHANGED <<numpy, cin, cout, pin, pout, k_list, idx, loc, codes, reads,
                   compiled, err, enc_out, dec_out, wargs, wcode, g_out>>

NextWriter == Generate \/ WriteG \/ WriteH

SpecWriter == InitWriter /\ [][NextWriter]_vars

\* Where entry (i, j), both 1-based, stands in the printed matrix.
EntryPos(i, j, cols) == 2 + (i - 1) * (3 * cols + 3) + 1 + (j - 1) * 3

\* Every entry of M is printed as the flag asks: a one as 1; a zero as 0 with
\* --print0 and as a blank without it.
PrintedAsAsked(M, text, print0) ==
    \A i \in 1..Rows(M) : \A j \in 1..Cols(M) :
        text[EntryPos(i, j, Cols(M))]
            = IF M[i][j] = 1 THEN "1" ELSE IF print0 THEN "0" ELSE " "

\* C10: with --print0 every zero entry of G and of H is written as 0, without
\* it as a blank; ones are written as 1 and the header lines are unchanged.
C10_Print0Flag ==
    pc = "done" =>
        /\ PrintedAsAsked(wcode.G, g_out[1].matrix, wargs.print0)
        /\ PrintedAsAsked(wcode.H, h_out[1].matrix, wargs.print0)
        /\ g_out[1].header = file_header(wargs.k, wcode.r, wcode.n)
        /\ h_out[1].header = file_header(wargs.k, wcode.r, wcode.n)

=============================================================================
